---------------------------- MODULE Spec2Model ----------------------------
(***************************************************************************)
(* Model of buildPlaneGeometry (src/geometryBuilders/buildPlaneGeometry.js)*)
(*                                                                         *)
(* One call of the function is a small state machine: the argument cfg,    *)
(* the activation record of the call (frame: the locals, the typed arrays, *)
(* the position in the body) and the messages written to console.error.    *)
(*                                                                         *)
(* Numbers.  A JavaScript number is modelled as an exact rational          *)
(* [n, d] in lowest terms; the value `undefined` of an absent field is     *)
(* [n |-> 0, d |-> 0].  Within the bounds below every double-precision     *)
(* intermediate either is exact (small dyadic values, and x/p*p for        *)
(* p of the form 2^i + 2^j) or lies much further from a Float32 rounding   *)
(* boundary than the double rounding error, so a store into a             *)
(* Float32Array is the Float32 rounding (Fround) of the exact value.       *)
(* Stores into Uint16Array / Uint32Array wrap modulo 2^16 / 2^32.          *)
(***************************************************************************)
EXTENDS Integers, Sequences, FiniteSets, TLC

VARIABLES cfg, frame, console

vars == <<cfg, frame, console>>

(***************************************************************************)
(* Bounds of the model                                                     *)
(***************************************************************************)
\* largest magnitude of a supplied xSegments / zSegments
MaxSeg == 3
\* largest magnitude of a supplied xSize / zSize
MaxSize == 1
\* supplied xSegments of the wide model range over 255-WideSpan .. 255+WideSpan
WideSpan == 1

(***************************************************************************)
(* JavaScript numbers as exact rationals                                   *)
(***************************************************************************)
Abs(i) == IF i < 0 THEN -i ELSE i

RECURSIVE GCD(_, _)
GCD(a, b) == IF b = 0 THEN a ELSE GCD(b, a % b)

\* the rational n/d (d > 0) in lowest terms
Rat(n, d) ==
    LET g == GCD(Abs(n), d) IN [n |-> n \div g, d |-> d \div g]

Num(i) == [n |-> i, d |-> 1]

Undefined == [n |-> 0, d |-> 0]

Add(p, q) == Rat(p.n * q.d + q.n * p.d, p.d * q.d)

Neg(p) == [n |-> -p.n, d |-> p.d]

Sub(p, q) == Add(p, Neg(q))

Mul(p, q) == Rat(p.n * q.n, p.d * q.d)

\* p / q for q > 0 (every divisor of the function is a positive integer)
Div(p, q) == Rat(p.n * q.d, p.d * q.n)

Lt(p, q) == p.n * q.d < q.n * p.d

\* Math.floor
Floor(p) == p.n \div p.d

\* ToBoolean on a number or undefined: undefined and 0 are falsy
Truthy(v) == v # Undefined /\ v.n # 0

\* v || dflt
OrElse(v, dflt) == IF Truthy(v) THEN v ELSE dflt

(***************************************************************************)
(* Typed-array element conversions                                         *)
(***************************************************************************)
\* smallest k >= 0 with n * 2^k >= 2^23 * d, for 0 < n/d < 2^24
RECURSIVE FroundExp(_, _, _)
FroundExp(n, d, k) ==
    IF n * 2^k >= 8388608 * d THEN k ELSE FroundExp(n, d, k + 1)

\* n/d rounded to the nearest integer, ties to even
RoundHalfEven(n, d) ==
    LET q == n \div d
        r == n % d
    IN  IF 2 * r < d THEN q
        ELSE IF 2 * r > d THEN q + 1
        ELSE IF q % 2 = 0 THEN q ELSE q + 1

\* the value a Float32Array element holds after `arr[i] = v`:
\* v rounded to a 24-bit significand (round to nearest, ties to even)
Fround(v) ==
    IF v.n = 0 THEN v
    ELSE LET a == Abs(v.n)
             k == FroundExp(a, v.d, 0)
             m == RoundHalfEven(a * 2^k, v.d)
         IN  Rat((IF v.n < 0 THEN -m ELSE m), 2^k)

\* the value a Uint16Array / Uint32Array element holds after `arr[i] = v`
\* (v a non-negative integer): v modulo 2^bits, computed in 16-bit limbs
StoreUint(bits, v) ==
    IF bits = 16 THEN v % 65536
    ELSE (v % 65536) + 65536 * ((v \div 65536) % 65536)

\* new Float32Array(len) / new UintNArray(len): zero-filled, indices 0..len-1
Float32Array(len) == [i \in 0 .. len - 1 |-> Num(0)]

UintArray(len) == [i \in 0 .. len - 1 |-> 0]

Length(arr) == Cardinality(DOMAIN arr)

(***************************************************************************)
(* Input sanitisation, lines 58-86                                         *)
(***************************************************************************)
\* a variant that keeps a negative size
XSizeNoInvert(c) == OrElse(c.xSize, Num(1))

\* lines 58-62
XSize(c) ==
    LET xSize == OrElse(c.xSize, Num(1))
    IN  IF Lt(xSize, Num(0)) THEN Mul(xSize, Num(-1)) ELSE xSize

\* lines 64-68
ZSize(c) ==
    LET zSize == OrElse(c.zSize, Num(1))
    IN  IF Lt(zSize, Num(0)) THEN Mul(zSize, Num(-1)) ELSE zSize

\* a variant that clamps without inverting a negative count
XSegmentsNoInvert(c) ==
    LET xSegments == OrElse(c.xSegments, Num(1))
    IN  IF Lt(xSegments, Num(1)) THEN Num(1) ELSE xSegments

\* lines 70-77
XSegments(c) ==
    LET xSegments == OrElse(c.xSegments, Num(1))
        inverted == IF Lt(xSegments, Num(0)) THEN Mul(xSegments, Num(-1))
                    ELSE xSegments
    IN  IF Lt(inverted, Num(1)) THEN Num(1) ELSE inverted

\* a variant that reads the Z count from cfg.zSegments
ZSegmentsFromZ(c) ==
    LET zSegments == OrElse(c.zSegments, Num(1))
        inverted == IF Lt(zSegments, Num(0)) THEN Mul(zSegments, Num(-1))
                    ELSE zSegments
    IN  IF Lt(inverted, Num(1)) THEN Num(1) ELSE inverted

\* lines 79-86: the Z count is read from cfg.xSegments
ZSegments(c) ==
    LET zSegments == OrElse(c.xSegments, Num(1))
        inverted == IF Lt(zSegments, Num(0)) THEN Mul(zSegments, Num(-1))
                    ELSE zSegments
    IN  IF Lt(inverted, Num(1)) THEN Num(1) ELSE inverted

\* the console.error calls of lines 60, 66, 72 and 81, in program order
Notices(c) ==
    (IF Lt(OrElse(c.xSize, Num(1)), Num(0))
        THEN <<"negative xSize not allowed - will invert">> ELSE << >>)
    \o (IF Lt(OrElse(c.zSize, Num(1)), Num(0))
        THEN <<"negative zSize not allowed - will invert">> ELSE << >>)
    \o (IF Lt(OrElse(c.xSegments, Num(1)), Num(0))
        THEN <<"negative xSegments not allowed - will invert">> ELSE << >>)
    \o (IF Lt(OrElse(c.xSegments, Num(1)), Num(0))
        THEN <<"negative zSegments not allowed - will invert">> ELSE << >>)

(***************************************************************************)
(* The activation record of one call                                       *)
(***************************************************************************)
\* the record returned at lines 167-173; NoResult before the return
NoResult ==
    [primitiveType |-> "none", positions |-> << >>, normals |-> << >>,
     uv |-> << >>, indices |-> << >>]

\* the locals before the first statement has run
EntryFrame ==
    [pc |-> "entry",
     xSize |-> Undefined, zSize |-> Undefined,
     xSegments |-> Undefined, zSegments |-> Undefined,
     centerX |-> Undefined, centerY |-> Undefined, centerZ |-> Undefined,
     halfWidth |-> Undefined, halfHeight |-> Undefined,
     planeX |-> 0, planeZ |-> 0, planeX1 |-> 0, planeZ1 |-> 0,
     segmentWidth |-> Undefined, segmentHeight |-> Undefined,
     positions |-> << >>, normals |-> << >>, uvs |-> << >>,
     offset |-> 0, offset2 |-> 0, iz |-> 0, ix |-> 0,
     indexBits |-> 0, indices |-> << >>,
     ret |-> NoResult]

\* lines 58-86: the four sanitised inputs
Sanitized(c, f) ==
    [f EXCEPT !.pc = "sanitized",
              !.xSize = XSize(c),
              !.zSize = ZSize(c),
              !.xSegments = XSegments(c),
              !.zSegments = ZSegments(c)]

\* `center ? center[i] : 0`, lines 88-91 (arrays are 0-based in the source)
CenterComponent(center, i) ==
    IF center # << >> THEN center[i + 1] ELSE Num(0)

\* `Math.floor(segments) || 1`, lines 96-97
PlaneCount(segments) ==
    IF Floor(segments) # 0 THEN Floor(segments) ELSE 1

\* the lengths of lines 105-107
VertexArrayLength(planeX1, planeZ1, components) ==
    planeX1 * planeZ1 * components

\* lines 88-124: centre, grid dimensions, the three vertex arrays, and the
\* initialisation of the vertex loops (both loops are entered: planeX1 and
\* planeZ1 are at least 2)
Allocated(c, f) ==
    LET planeX == PlaneCount(f.xSegments)
        planeZ == PlaneCount(f.zSegments)
        planeX1 == planeX + 1
        planeZ1 == planeZ + 1
    IN  [f EXCEPT !.pc = "vertices",
                  !.centerX = CenterComponent(c.center, 0),
                  !.centerY = CenterComponent(c.center, 1),
                  !.centerZ = CenterComponent(c.center, 2),
                  !.halfWidth = Div(f.xSize, Num(2)),
                  !.halfHeight = Div(f.zSize, Num(2)),
                  !.planeX = planeX,
                  !.planeZ = planeZ,
                  !.planeX1 = planeX1,
                  !.planeZ1 = planeZ1,
                  !.segmentWidth = Div(f.xSize, Num(planeX)),
                  !.segmentHeight = Div(f.zSize, Num(planeZ)),
                  !.positions = Float32Array(VertexArrayLength(planeX1, planeZ1, 3)),
                  !.normals = Float32Array(VertexArrayLength(planeX1, planeZ1, 3)),
                  !.uvs = Float32Array(VertexArrayLength(planeX1, planeZ1, 2)),
                  !.offset = 0,
                  !.offset2 = 0,
                  !.iz = 0,
                  !.ix = 0]

\* a variant that forgets to negate z
VertexPositionNoFlip(f) ==
    LET z == Sub(Mul(Num(f.iz), f.segmentHeight), f.halfHeight)
        x == Sub(Mul(Num(f.ix), f.segmentWidth), f.halfWidth)
    IN  <<Add(x, f.centerX), f.centerY, Add(z, f.centerZ)>>

\* lines 122-130: the three values assigned to positions[offset .. offset+2]
VertexPosition(f) ==
    LET z == Sub(Mul(Num(f.iz), f.segmentHeight), f.halfHeight)
        x == Sub(Mul(Num(f.ix), f.segmentWidth), f.halfWidth)
    IN  <<Add(x, f.centerX), f.centerY, Add(Neg(z), f.centerZ)>>

\* a variant that writes the normal's Y slot
NormalsWrittenY(f) ==
    [f.normals EXCEPT ![f.offset + 1] = Fround(Num(-1))]

\* line 132: only the Z slot of the vertex's normal is assigned
NormalsWritten(f) ==
    [f.normals EXCEPT ![f.offset + 2] = Fround(Num(-1))]

\* lines 134-135
VertexUV(f) ==
    <<Div(Num(f.ix), Num(f.planeX)), Div(Num(f.planeZ - f.iz), Num(f.planeZ))>>

\* lines 120-139: one iteration of the inner vertex loop, with the loop
\* increments and tests that follow it
VertexBody(f) ==
    LET p == VertexPosition(f)
        uv == VertexUV(f)
        rowEnds == ~(f.ix + 1 < f.planeX1)
        loopEnds == rowEnds /\ ~(f.iz + 1 < f.planeZ1)
    IN  [f EXCEPT !.positions = [@ EXCEPT ![f.offset] = Fround(p[1]),
                                          ![f.offset + 1] = Fround(p[2]),
                                          ![f.offset + 2] = Fround(p[3])],
                  !.normals = NormalsWritten(f),
                  !.uvs = [@ EXCEPT ![f.offset2] = Fround(uv[1]),
                                    ![f.offset2 + 1] = Fround(uv[2])],
                  !.offset = @ + 3,
                  !.offset2 = @ + 2,
                  !.ix = IF ~rowEnds THEN f.ix + 1
                         ELSE IF loopEnds THEN f.planeX1 ELSE 0,
                  !.iz = IF rowEnds THEN f.iz + 1 ELSE f.iz,
                  !.pc = IF loopEnds THEN "vertices_done" ELSE "vertices"]

(***************************************************************************)
(* Triangulation, lines 142-165                                            *)
(***************************************************************************)
\* the threshold of line 144
Uint16Max == 65535

\* a variant that always picks the 16-bit element type
IndexBitsNarrow(positionsLength) == 16

\* line 144: `(positions.length / 3) > 65535 ? Uint32Array : Uint16Array`
IndexBits(positionsLength) ==
    IF Lt(Num(Uint16Max), Div(Num(positionsLength), Num(3))) THEN 32 ELSE 16

\* a variant with the first triangle wound (a, b, d)
CellIndicesRewound(ix, iz, planeX1) ==
    LET a == ix + planeX1 * iz
        b == ix + planeX1 * (iz + 1)
        c == (ix + 1) + planeX1 * (iz + 1)
        d == (ix + 1) + planeX1 * iz
    IN  <<a, b, d, d, c, b>>

\* a variant whose row stride is planeX1 + 1
CellIndicesWideStride(ix, iz, planeX1) ==
    LET a == ix + (planeX1 + 1) * iz
        b == ix + (planeX1 + 1) * (iz + 1)
        c == (ix + 1) + (planeX1 + 1) * (iz + 1)
        d == (ix + 1) + (planeX1 + 1) * iz
    IN  <<d, b, a, d, c, b>>

\* lines 150-161: the corners of cell (ix, iz) and the six values assigned
\* to indices[offset .. offset+5]
CellIndices(ix, iz, planeX1) ==
    LET a == ix + planeX1 * iz
        b == ix + planeX1 * (iz + 1)
        c == (ix + 1) + planeX1 * (iz + 1)
        d == (ix + 1) + planeX1 * iz
    IN  <<d, b, a, d, c, b>>

\* lines 142-148: the index array and the initialisation of the index loops
\* (both loops are entered: planeX and planeZ are at least 1)
IndicesAllocated(f) ==
    [f EXCEPT !.pc = "indices",
              !.offset = 0,
              !.indexBits = IndexBits(Length(f.positions)),
              !.indices = UintArray(f.planeX * f.planeZ * 6),
              !.iz = 0,
              !.ix = 0]

\* lines 146-165: one iteration of the inner index loop, with the loop
\* increments and tests that follow it
IndexBody(f) ==
    LET v == CellIndices(f.ix, f.iz, f.planeX1)
        rowEnds == ~(f.ix + 1 < f.planeX)
        loopEnds == rowEnds /\ ~(f.iz + 1 < f.planeZ)
    IN  [f EXCEPT !.indices =
                      [k \in DOMAIN @ |->
                          IF k \in f.offset .. f.offset + 5
                          THEN StoreUint(f.indexBits, v[k - f.offset + 1])
                          ELSE @[k]],
                  !.offset = @ + 6,
                  !.ix = IF ~rowEnds THEN f.ix + 1
                         ELSE IF loopEnds THEN f.planeX ELSE 0,
                  !.iz = IF rowEnds THEN f.iz + 1 ELSE f.iz,
                  !.pc = IF loopEnds THEN "indices_done" ELSE "indices"]

\* lines 167-173
Returned(f) ==
    [f EXCEPT !.pc = "done",
              !.ret = [primitiveType |-> "triangles",
                       positions |-> f.positions,
                       normals |-> f.normals,
                       uv |-> f.uvs,
                       indices |-> f.indices]]

(***************************************************************************)
(* The call, statement by statement                                        *)
(***************************************************************************)
\* the next step of the body from frame f
Step(c, f) ==
    CASE f.pc = "entry" -> Sanitized(c, f)
      [] f.pc = "sanitized" -> Allocated(c, f)
      [] f.pc = "vertices" -> VertexBody(f)
      [] f.pc = "vertices_done" -> IndicesAllocated(f)
      [] f.pc = "indices" -> IndexBody(f)
      [] f.pc = "indices_done" -> Returned(f)
      [] OTHER -> f

RECURSIVE Run(_, _)
Run(c, f) == IF f.pc = "done" THEN f ELSE Run(c, Step(c, f))

\* buildPlaneGeometry(c): the returned record
buildPlaneGeometry(c) == Run(c, EntryFrame).ret

(***************************************************************************)
(* Configurations                                                          *)
(***************************************************************************)
SizeInputs ==
    {Undefined, Num(0), Rat(1, 2), Rat(-1, 2), Num(MaxSize), Num(-MaxSize)}

XSegmentInputs ==
    {Undefined, Rat(1, 2), Rat(-1, 2), Rat(5, 2), Rat(-5, 2)}
        \cup {Num(i) : i \in -MaxSeg .. MaxSeg}

ZSegmentInputs ==
    {Undefined, Num(-1), Num(2), Num(MaxSeg + 1)}

CenterInputs ==
    {<< >>, <<Num(1), Num(-2), Rat(1, 2)>>}

Configs ==
    [xSize : SizeInputs, zSize : SizeInputs,
     xSegments : XSegmentInputs, zSegments : ZSegmentInputs,
     center : CenterInputs]

(***************************************************************************)
(* Actions                                                                 *)
(***************************************************************************)
Init ==
    /\ cfg \in Configs
    /\ frame = EntryFrame
    /\ console = << >>

Sanitize ==
    /\ frame.pc = "entry"
    /\ frame' = Sanitized(cfg, frame)
    /\ console' = console \o Notices(cfg)
    /\ UNCHANGED cfg

Allocate ==
    /\ frame.pc = "sanitized"
    /\ frame' = Allocated(cfg, frame)
    /\ UNCHANGED <<cfg, console>>

VertexStep ==
    /\ frame.pc = "vertices"
    /\ frame' = VertexBody(frame)
    /\ UNCHANGED <<cfg, console>>

AllocateIndices ==
    /\ frame.pc = "vertices_done"
    /\ frame' = IndicesAllocated(frame)
    /\ UNCHANGED <<cfg, console>>

IndexStep ==
    /\ frame.pc = "indices"
    /\ frame' = IndexBody(frame)
    /\ UNCHANGED <<cfg, console>>

Return ==
    /\ frame.pc = "indices_done"
    /\ frame' = Returned(frame)
    /\ UNCHANGED <<cfg, console>>

Next ==
    \/ Sanitize
    \/ Allocate
    \/ VertexStep
    \/ AllocateIndices
    \/ IndexStep
    \/ Return

Spec == Init /\ [][Next]_vars

(***************************************************************************)
(* The index element type at the 16-bit boundary                           *)
(*                                                                         *)
(* A grid of about 256 x 256 cells has 65536 vertices.  The wide model     *)
(* keeps the scalars of the call and, instead of the arrays, the six       *)
(* values one iteration of the index loop stores: iteration (ix, iz) of    *)
(* lines 146-165 runs with offset = 6 * (iz * planeX + ix).                *)
(***************************************************************************)
WideConfigs ==
    [xSize : {Undefined}, zSize : {Undefined},
     xSegments : {Num(i) : i \in 255 - WideSpan .. 255 + WideSpan},
     zSegments : {Undefined, Num(1)},
     center : {<< >>}]

WideEntryFrame ==
    [pc |-> "entry",
     planeX |-> 0, planeZ |-> 0, planeX1 |-> 0, planeZ1 |-> 0,
     positionsLength |-> 0, indexBits |-> 0,
     offset |-> 0, iz |-> 0, ix |-> 0, stored |-> << >>]

\* lines 58-107 and 142-144 without the array contents
WideEntered(c, f) ==
    LET planeX == PlaneCount(XSegments(c))
        planeZ == PlaneCount(ZSegments(c))
        len == VertexArrayLength(planeX + 1, planeZ + 1, 3)
    IN  [f EXCEPT !.pc = "indices",
                  !.planeX = planeX,
                  !.planeZ = planeZ,
                  !.planeX1 = planeX + 1,
                  !.planeZ1 = planeZ + 1,
                  !.positionsLength = len,
                  !.indexBits = IndexBits(len)]

\* lines 150-163 for the cell (ix, iz)
WideStored(f, ix, iz) ==
    LET v == CellIndices(ix, iz, f.planeX1)
    IN  [f EXCEPT !.pc = "stored",
                  !.ix = ix,
                  !.iz = iz,
                  !.offset = 6 * (iz * f.planeX + ix),
                  !.stored = [k \in 1 .. 6 |-> StoreUint(f.indexBits, v[k])]]

InitWide ==
    /\ cfg \in WideConfigs
    /\ frame = WideEntryFrame
    /\ console = << >>

EnterWide ==
    /\ frame.pc = "entry"
    /\ frame' = WideEntered(cfg, frame)
    /\ console' = console \o Notices(cfg)
    /\ UNCHANGED cfg

StoreCell ==
    /\ frame.pc = "indices"
    /\ \E ix \in 0 .. frame.planeX - 1, iz \in 0 .. frame.planeZ - 1 :
           frame' = WideStored(frame, ix, iz)
    /\ UNCHANGED <<cfg, console>>

NextWide ==
    \/ EnterWide
    \/ StoreCell

SpecWide == InitWide /\ [][NextWide]_vars

(***************************************************************************)
(* Properties                                                              *)
(***************************************************************************)
Done == frame.pc = "done"

\* a field that was supplied with a non-zero number
Supplied(v) == v # Undefined /\ v.n # 0

Negative(v) == v # Undefined /\ v.n < 0

AbsRat(v) == IF v.n < 0 THEN Neg(v) ELSE v

Max(i, j) == IF i < j THEN j ELSE i

\* C1: the returned arrays have 3, 3 and 2 entries per vertex of the
\* (planeX+1) x (planeZ+1) grid, the index count is a multiple of 3, and
\* every index is below the vertex count.
C1_ArrayShapes ==
    Done =>
        LET vertexCount == (frame.planeX + 1) * (frame.planeZ + 1)
            r == frame.ret
        IN  /\ Length(r.positions) = 3 * vertexCount
            /\ Length(r.normals) = 3 * vertexCount
            /\ Length(r.uv) = 2 * vertexCount
            /\ Length(r.indices) % 3 = 0
            /\ \A k \in DOMAIN r.indices : r.indices[k] < vertexCount

C1_Witness ==
    Done /\ frame.planeX >= 2 /\ Length(frame.ret.indices) > 6

\* C2: with positive sizes and supplied xSegments, zSegments >= 1 the result
\* has (floor(xSegments)+1)*(floor(zSegments)+1) vertices and
\* 2*floor(xSegments)*floor(zSegments) triangles.
C2_CountsFollowBothSegments ==
    (/\ Done
     /\ Supplied(cfg.xSize) /\ ~Negative(cfg.xSize)
     /\ Supplied(cfg.zSize) /\ ~Negative(cfg.zSize)
     /\ Supplied(cfg.xSegments) /\ ~Lt(cfg.xSegments, Num(1))
     /\ Supplied(cfg.zSegments) /\ ~Lt(cfg.zSegments, Num(1)))
    =>
        /\ Length(frame.ret.positions)
             = 3 * (Floor(cfg.xSegments) + 1) * (Floor(cfg.zSegments) + 1)
        /\ Length(frame.ret.indices)
             = 3 * 2 * Floor(cfg.xSegments) * Floor(cfg.zSegments)

C4_Winding ==
    Done =>
        /\ \A ix \in 0 .. frame.planeX - 1, iz \in 0 .. frame.planeZ - 1 :
               LET a == ix + (frame.planeX + 1) * iz
                   b == ix + (frame.planeX + 1) * (iz + 1)
                   c == (ix + 1) + (frame.planeX + 1) * (iz + 1)
                   d == (ix + 1) + (frame.planeX + 1) * iz
                   o == 6 * (iz * frame.planeX + ix)
                   t == frame.ret.indices
               IN  /\ t[o] = d /\ t[o + 1] = b /\ t[o + 2] = a
                   /\ t[o + 3] = d /\ t[o + 4] = c /\ t[o + 5] = b
        /\ (/\ cfg.xSize = Undefined /\ cfg.zSize = Undefined
            /\ cfg.xSegments = Undefined /\ cfg.zSegments = Undefined
            /\ cfg.center = << >>)
           => frame.ret.indices = [k \in 0 .. 5 |-> <<1, 2, 0, 1, 3, 2>>[k + 1]]

C4_Witness ==
    Done /\ frame.planeX >= 2 /\ frame.planeZ >= 2 /\ frame.ret.indices[6] = 2

\* C5: a negative size is inverted, not rejected: the record returned for
\* xSize = -s equals the one for xSize = s, likewise zSize, and a geometry
\* record is returned.
C5_NegativeSizeInverted ==
    Done =>
        /\ frame.ret.primitiveType = "triangles"
        /\ Supplied(cfg.xSize) =>
               buildPlaneGeometry([cfg EXCEPT !.xSize = Neg(@)]) = frame.ret
        /\ Supplied(cfg.zSize) =>
               buildPlaneGeometry([cfg EXCEPT !.zSize = Neg(@)]) = frame.ret

C5_Witness ==
    Done /\ Negative(cfg.xSize) /\ ~Negative(cfg.zSize) /\ frame.planeX >= 2

\* the notice that names parameter p
NoticeFor(p) == "negative " \o p \o " not allowed - will invert"

Occurrences(seq, x) == Cardinality({i \in DOMAIN seq : seq[i] = x})

\* C6: exactly one notice for each of xSize, zSize, xSegments that is
\* supplied negative, and no other notice.
C6_OnlyNoticesForNegatives ==
    frame.pc # "entry" =>
        /\ Occurrences(console, NoticeFor("xSize"))
             = (IF Negative(cfg.xSize) THEN 1 ELSE 0)
        /\ Occurrences(console, NoticeFor("zSize"))
             = (IF Negative(cfg.zSize) THEN 1 ELSE 0)
        /\ Occurrences(console, NoticeFor("xSegments"))
             = (IF Negative(cfg.xSegments) THEN 1 ELSE 0)
        /\ \A i \in DOMAIN console :
               console[i] \in {NoticeFor("xSize"), NoticeFor("zSize"),
                               NoticeFor("xSegments")}

\* C7: once the vertex loop has ended every normal is exactly (0, 0, -1),
\* in the working array and in the returned one.
C7_Normals ==
    frame.pc \in {"vertices_done", "indices", "indices_done", "done"} =>
        LET vertexCount == (frame.planeX + 1) * (frame.planeZ + 1)
        IN  /\ DOMAIN frame.normals = 0 .. 3 * vertexCount - 1
            /\ \A v \in 0 .. vertexCount - 1 :
                   /\ frame.normals[3 * v] = Num(0)
                   /\ frame.normals[3 * v + 1] = Num(0)
                   /\ frame.normals[3 * v + 2] = Num(-1)
            /\ Done => frame.ret.normals = frame.normals

C7_Witness ==
    Done /\ frame.planeX >= 2 /\ frame.ret.normals[8] = Num(-1)

\* C8: planeX is an integer >= 1 equal to max(1, floor(|xSegments|)); an
\* absent xSegments gives 1.
C8_PlaneX ==
    frame.pc \notin {"entry", "sanitized"} =>
        /\ frame.planeX >= 1
        /\ frame.planeX =
             (IF cfg.xSegments = Undefined THEN 1
              ELSE Max(1, Floor(AbsRat(cfg.xSegments))))

C8_Witness ==
    /\ Done
    /\ Lt(cfg.xSegments, Num(-1))
    /\ cfg.xSegments.d = 2
    /\ frame.planeX = 2

\* the position of vertex (ix, iz) in exact arithmetic
ExactPosition(ix, iz) ==
    <<Add(Sub(Div(Mul(Num(ix), frame.xSize), Num(frame.planeX)),
              Div(frame.xSize, Num(2))),
          frame.centerX),
      frame.centerY,
      Add(Neg(Sub(Div(Mul(Num(iz), frame.zSize), Num(frame.planeZ)),
                  Div(frame.zSize, Num(2)))),
          frame.centerZ)>>

StoredPosition(v) ==
    <<frame.ret.positions[3 * v], frame.ret.positions[3 * v + 1],
      frame.ret.positions[3 * v + 2]>>

C10_IndexWidth ==
    frame.pc = "stored" =>
        LET vertexCount == frame.planeX1 * frame.planeZ1
            a == frame.ix + frame.planeX1 * frame.iz
            b == frame.ix + frame.planeX1 * (frame.iz + 1)
            c == (frame.ix + 1) + frame.planeX1 * (frame.iz + 1)
            d == (frame.ix + 1) + frame.planeX1 * frame.iz
        IN  /\ frame.indexBits = (IF vertexCount > 65535 THEN 32 ELSE 16)
            /\ frame.stored = <<d, b, a, d, c, b>>
            /\ c <= vertexCount - 1

C10_Witness ==
    /\ frame.pc = "stored"
    /\ frame.planeX1 * frame.planeZ1 = 65536
    /\ frame.indexBits = 32
    /\ frame.stored[5] = 65535

=============================================================================
